---- MODULE Spec2Model ----
(***************************************************************************)
(* The WhatsApp expense tracker of src/app.py: the webhook handler         *)
(* whatsapp_webhook, the session map pending_expenses it drives, the       *)
(* custom-category table kept by the Apps Script store, and the background *)
(* threads that post completed expenses to the sheet.                      *)
(*                                                                         *)
(* In Spec one action stands for one whole run of the handler along one of  *)
(* its routes; the answers of the outside services (text understanding,    *)
(* the store's HTTP calls, the rows the sheet lists) are the action's      *)
(* parameters. SpecStats runs the stats commands over the sheets the store *)
(* may list, SpecResolve the category reply over the custom categories it  *)
(* may list, and SpecConc two runs of the handler side by side, a step for *)
(* each stretch of the handler between two outside calls.                  *)
(***************************************************************************)
EXTENDS Bags, FiniteSets, Integers, Sequences, TLC

VARIABLES
    pending_expenses,   \* app.py:21   sender -> session dict, NoSession when the key is absent
    custom_table,       \* the store's custom-category side table, in the order it lists them
    threads,            \* bag of the add_in_background threads started and not yet run
    request,            \* the message the handler is running on, NoRequest between runs
    resp,               \* the reply the last run of the handler returned
    data,               \* app.py:272, 292  the rows the last run read from the sheet
    running             \* the runs of the handler in progress side by side, one per worker

vars == <<pending_expenses, custom_table, threads, request, resp, data, running>>

-----------------------------------------------------------------------------
(* Bounds of the model. *)

MaxCustom  == 1     \* rows the custom-category table may hold
MaxThreads == 1     \* background threads alive at once
MaxRows    == 2     \* rows of the sheet a stats command reads
MaxSnapshot == 7    \* custom categories the store lists to a category reply

-----------------------------------------------------------------------------
(* Values. *)

Senders == {"A", "B"}

\* the senders whose messages arrive in Spec: one conversation, in full detail
Talking == {"A"}

\* request.values.get('Body', '') as it arrives, before strip()
Bodies == {"  ", " Cancel ", "reset", "today", "week", "month", "last",
           "18 oct", "3", "5", "x", "other", "Transport"}

Today == "06-11-2026"
Dates == {Today, "18-10-2026"}
Amounts == {"500"}
Descriptions == {"groceries"}

STANDARD_CATEGORIES == <<"Cable", "Labour", "Material Purchase", "Fuel">>

\* what the text-understanding service may put in the category field
ExtractedCategories == {"Labour", "uncertain", "Other"}

\* str.strip() on the bodies of the model
Strip(b) ==
    CASE b = "  " -> ""
      [] b = " Cancel " -> "Cancel"
      [] OTHER -> b

\* str.lower() on the stripped bodies and on the category names of the model
Lower(b) ==
    CASE b = "Cancel" -> "cancel"
      [] b = "Other" -> "other"
      [] b = "Transport" -> "transport"
      [] b = "Cable" -> "cable"
      [] b = "Labour" -> "labour"
      [] b = "Material Purchase" -> "material purchase"
      [] b = "Fuel" -> "fuel"
      [] OTHER -> b

\* str(idx) for the menu positions
Str(n) == <<"1", "2", "3", "4", "5", "6", "7", "8", "9", "10", "11", "12">>[n]

\* the workers of the server that run the handler side by side (app.run serves
\* each request on a thread of its own)
Workers == {"w1", "w2"}

\* the worker runs no handler
Idle == [pc |-> "idle"]

\* a key that is not in pending_expenses
NoSession == [waiting_for |-> "absent"]

\* no POST to /webhook is being handled
NoRequest == [From |-> "", Body |-> ""]

\* app.py:251-252: the MessagingResponse with no body yet
EmptyResponse == [kind |-> "none"]

\* parse_expense_with_gemini returned None
ParseFailed == [failed |-> TRUE]

-----------------------------------------------------------------------------
(* Python dicts as records: a key is present when it is in the DOMAIN. *)

HasKey(d, k) == k \in DOMAIN d

\* d.get(k, default)
Get(d, k, default) == IF k \in DOMAIN d THEN d[k] ELSE default

\* d[k] = v
SetKey(d, k, v) == [x \in (DOMAIN d) \cup {k} |-> IF x = k THEN v ELSE d[x]]

-----------------------------------------------------------------------------
(* The outside services. *)

\* What the model may answer to the date prompt of parse_date_with_gemini.
GeminiDateAnswers == Dates \cup {"I cannot tell"}

\* app.py:93-102: the answer is kept when strptime accepts it, else None
\* (None is written "", which is falsy like None at app.py:310).
parse_date_with_gemini(answer) == IF answer \in Dates THEN answer ELSE ""

\* The JSON objects the model may answer to the prompt of parse_expense_with_gemini:
\* the four keys, or one of date, category, amount left out.
FullPayloads ==
    [date : Dates \cup {"missing"}, amount : Amounts,
     description : Descriptions, category : ExtractedCategories]

NoDatePayloads ==
    [amount : Amounts, description : Descriptions, category : ExtractedCategories]

NoCategoryPayloads ==
    [date : Dates \cup {"missing"}, amount : Amounts, description : Descriptions]

NoAmountPayloads ==
    [date : {"missing"}, description : Descriptions, category : {"Labour"}]

JsonObjects == FullPayloads \cup NoDatePayloads \cup NoCategoryPayloads \cup NoAmountPayloads

GeminiExpenseAnswers == JsonObjects \cup {[text |-> "not json"]}

\* app.py:139-159: json.loads of the answer, None when it raises
parse_expense_with_gemini(answer) == IF HasKey(answer, "text") THEN ParseFailed ELSE answer

\* The keys of the JSON object the store returns for get_custom_categories:
\* each name once, in the order the table lists them.
RECURSIVE Keys(_)
Keys(table) ==
    IF table = <<>> THEN <<>>
    ELSE LET h == Keys(SubSeq(table, 1, Len(table) - 1))
             x == table[Len(table)]
         IN  IF \E i \in 1..Len(h) : h[i] = x THEN h ELSE Append(h, x)

\* app.py:23-44: the names of the custom categories, {} on any failure
get_custom_categories(ok) == IF ok THEN Keys(custom_table) ELSE <<>>

\* app.py:192-205: the rows read from the sheet; None (written <<>>, falsy alike
\* at app.py:273 and 293) when the call fails
SheetRows ==
    {<<>>,
     <<[date |-> Today, amount |-> "500", description |-> "groceries", category |-> "Labour"]>>}

get_sheet_data(ok, rows) == IF ok THEN rows ELSE <<>>

-----------------------------------------------------------------------------
(* Category resolution, app.py:356-376. *)

\* category_map_base with the numbers of Material Purchase and Fuel exchanged
category_map_base_shifted ==
    [k \in {"1", "2", "3", "4", "cable", "labour", "material", "material purchase", "fuel"} |->
        CASE k \in {"1", "cable"} -> "Cable"
          [] k \in {"2", "labour"} -> "Labour"
          [] k \in {"4", "material", "material purchase"} -> "Material Purchase"
          [] k \in {"3", "fuel"} -> "Fuel"]

\* app.py:356-366: the fixed entries of category_map
category_map_base ==
    [k \in {"1", "2", "3", "4", "cable", "labour", "material", "material purchase", "fuel"} |->
        CASE k \in {"1", "cable"} -> "Cable"
          [] k \in {"2", "labour"} -> "Labour"
          [] k \in {"3", "material", "material purchase"} -> "Material Purchase"
          [] k \in {"4", "fuel"} -> "Fuel"]

\* app.py:369-371: the custom names from position i on, later entries overwrite
RECURSIVE AddCustom(_, _, _)
AddCustom(map, custom_cats, i) ==
    IF i > Len(custom_cats) THEN map
    ELSE AddCustom(SetKey(SetKey(map, Str(i + 4), custom_cats[i]),
                          Lower(custom_cats[i]), custom_cats[i]),
                   custom_cats, i + 1)

category_map(custom_cats) == AddCustom(category_map_base, custom_cats, 1)

\* app.py:376: category_map.get(category_input.lower()), None written ""
final_category(category_input, custom_cats) ==
    Get(category_map(custom_cats), Lower(category_input), "")

\* app.py:321-324: the numbered menu, the four fixed names then the custom ones
cat_list(custom_cats) == STANDARD_CATEGORIES \o custom_cats

-----------------------------------------------------------------------------
(* The statistics, app.py:207-238 and 276-285. *)

\* strptime raised ValueError
NoDate == [day |-> 0, month |-> 0, year |-> 0]

\* app.py:217: datetime.strptime(row['date'], '%d-%m-%Y') on the date strings of
\* the model; a string in another format raises
strptime(date_string) ==
    CASE date_string = "06-11-2026" -> [day |-> 6, month |-> 11, year |-> 2026]
      [] date_string = "07-11-2026" -> [day |-> 7, month |-> 11, year |-> 2026]
      [] date_string = "30-10-2026" -> [day |-> 30, month |-> 10, year |-> 2026]
      [] date_string = "29-10-2026" -> [day |-> 29, month |-> 10, year |-> 2026]
      [] date_string = "18-10-2026" -> [day |-> 18, month |-> 10, year |-> 2026]
      [] date_string = "06-11-2025" -> [day |-> 6, month |-> 11, year |-> 2025]
      [] OTHER -> NoDate

\* the proleptic Gregorian day number datetime subtracts by
IsLeap(year) == (year % 4 = 0 /\ year % 100 # 0) \/ year % 400 = 0

DaysInMonth(month, year) ==
    IF month = 2 THEN (IF IsLeap(year) THEN 29 ELSE 28)
    ELSE IF month \in {4, 6, 9, 11} THEN 30 ELSE 31

RECURSIVE DaysBeforeMonth(_, _)
DaysBeforeMonth(month, year) ==
    IF month = 1 THEN 0
    ELSE DaysBeforeMonth(month - 1, year) + DaysInMonth(month - 1, year)

DaysBeforeYear(year) ==
    LET y == year - 1 IN y * 365 + (y \div 4) - (y \div 100) + (y \div 400)

toordinal(d) == DaysBeforeYear(d.year) + DaysBeforeMonth(d.month, d.year) + d.day

\* app.py:221: (today - row_date).days, today being now with its time of day and
\* row_date a midnight: the whole days from the row's date to today's, negative
\* for a row dated after today
days_since(row_date) == toordinal(strptime(Today)) - toordinal(row_date)

\* app.py:216-226: the row is kept for the period; a date that does not parse or
\* a row without date raises inside the try and the row is passed over
in_period(row, period) ==
    LET row_date == strptime(Get(row, "date", ""))
        today == strptime(Today)
    IN  /\ row_date # NoDate
        /\ CASE period = "today" -> row_date = today
              [] period = "week" -> days_since(row_date) <= 7
              [] period = "month" ->
                     row_date.month = today.month /\ row_date.year = today.year
              [] OTHER -> FALSE

\* float(row.get('amount', 0)) on the amounts of the model
float(amount) ==
    CASE amount = "500" -> 500
      [] amount = "250" -> 250
      [] OTHER -> 0

RECURSIVE SumAmounts(_)
SumAmounts(rows) ==
    IF rows = <<>> THEN 0 ELSE float(Get(Head(rows), "amount", "0")) + SumAmounts(Tail(rows))

\* calculate_stats returning len(filtered_data) for the rows of the shown
\* categories only
calculate_stats_counts_shown(rows, period) ==
    LET filtered_data == SelectSeq(rows, LAMBDA row : in_period(row, period))
        cat(row) == Get(row, "category", "Other")
        of(c) == SelectSeq(filtered_data, LAMBDA row : cat(row) = c)
        cats == {cat(filtered_data[i]) : i \in 1..Len(filtered_data)}
    IN  [category_totals |->
             [c \in cats |-> [total |-> SumAmounts(of(c)), count |-> Len(of(c))]],
         total_transactions |->
             Len(SelectSeq(filtered_data, LAMBDA row : SumAmounts(of(cat(row))) > 0))]

\* app.py:207-238: the rows of the period, summed and counted by category, and
\* the number of rows of the period
calculate_stats(rows, period) ==
    LET filtered_data == SelectSeq(rows, LAMBDA row : in_period(row, period))
        cat(row) == Get(row, "category", "Other")
        of(c) == SelectSeq(filtered_data, LAMBDA row : cat(row) = c)
        cats == {cat(filtered_data[i]) : i \in 1..Len(filtered_data)}
    IN  [category_totals |->
             [c \in cats |-> [total |-> SumAmounts(of(c)), count |-> Len(of(c))]],
         total_transactions |-> Len(filtered_data)]

RECURSIVE SumTotals(_, _)
SumTotals(stats, cats) ==
    IF cats = {} THEN 0
    ELSE LET c == CHOOSE x \in cats : TRUE
         IN  stats[c].total + SumTotals(stats, cats \ {c})

\* app.py:274-286: the text of the stats reply: a line for each category whose
\* total is above zero (the text has them in the order of sorted()), then the
\* Total line with the sum of the lines and the number of rows of the period
StatsReply(period, rows) ==
    LET result == calculate_stats(rows, period)
        stats == result.category_totals
        shown == {c \in DOMAIN stats : stats[c].total > 0}
    IN  [kind |-> "stats",
         period |-> period,
         lines |-> [c \in shown |-> stats[c]],
         grand_total |-> SumTotals(stats, shown),
         total_transactions |-> result.total_transactions]

-----------------------------------------------------------------------------
(* Routing, app.py:243-302. *)

\* app.py:243
incoming_msg(Body) == Strip(Body)

\* command without lower()
command_not_lowered(Body) == incoming_msg(Body)

\* app.py:259
command(Body) == Lower(incoming_msg(Body))

IsCancel(Body) == command(Body) \in {"cancel", "reset"}
IsStats(Body) == command(Body) \in {"today", "week", "month"}
IsLast(Body) == command(Body) \in {"last", "last expense"}

\* the message gets past the empty check and the three command checks
PastCommands(Body) ==
    /\ incoming_msg(Body) # ""
    /\ ~IsCancel(Body)
    /\ ~IsStats(Body)
    /\ ~IsLast(Body)

\* app.py:302  from_number in pending_expenses
InPending(from_number) == pending_expenses[from_number] # NoSession

\* app.py:302-306, 349, 410: the branch of the session dispatch the message takes
WaitingFor(from_number, Body, what) ==
    /\ PastCommands(Body)
    /\ InPending(from_number)
    /\ pending_expenses[from_number].waiting_for = what

\* app.py:335-344 and the like: thread.start() of add_in_background on these values
Expense(date, amount, description, category) ==
    [date |-> date, amount |-> amount, description |-> description, category |-> category]

StartThread(e) ==
    /\ BagCardinality(threads) < MaxThreads
    /\ threads' = threads (+) SetToBag({e})

\* the "Adding expense..." acknowledgment, app.py:330, 391, 424, 491
Adding == [kind |-> "adding"]

\* Del that empties the whole map
Del_everyone(from_number) == [s \in Senders |-> NoSession]

\* del pending_expenses[from_number]
Del(from_number) == [pending_expenses EXCEPT ![from_number] = NoSession]

-----------------------------------------------------------------------------
(* The handler whatsapp_webhook, one action for each route through it. *)

\* app.py:254-256
EmptyBody(from_number, Body) ==
    /\ incoming_msg(Body) = ""
    /\ resp' = [kind |-> "send_expense_prompt"]
    /\ UNCHANGED <<pending_expenses, custom_table, threads>>

\* app.py:262-268
CancelReset(from_number, Body) ==
    /\ incoming_msg(Body) # ""
    /\ IsCancel(Body)
    /\ IF InPending(from_number)
       THEN /\ pending_expenses' = Del(from_number)
            /\ resp' = [kind |-> "cancelled"]
       ELSE /\ resp' = [kind |-> "nothing_to_cancel"]
            /\ UNCHANGED pending_expenses
    /\ UNCHANGED <<custom_table, threads>>

\* StatsCommand that drops the sender's session as cancel does
StatsCommand_clears_session(from_number, Body, ok, rows) ==
    /\ incoming_msg(Body) # ""
    /\ ~IsCancel(Body)
    /\ IsStats(Body)
    /\ data' = get_sheet_data(ok, rows)
    /\ resp' = IF data' # <<>>
               THEN StatsReply(command(Body), data')
               ELSE [kind |-> "no_data"]
    /\ pending_expenses' = Del(from_number)
    /\ UNCHANGED <<custom_table, threads>>

\* app.py:271-289
StatsCommand(from_number, Body, ok, rows) ==
    /\ incoming_msg(Body) # ""
    /\ ~IsCancel(Body)
    /\ IsStats(Body)
    /\ data' = get_sheet_data(ok, rows)
    /\ resp' = IF data' # <<>>
               THEN StatsReply(command(Body), data')
               ELSE [kind |-> "no_data"]
    /\ UNCHANGED <<pending_expenses, custom_table, threads>>

\* app.py:291-299
LastCommand(from_number, Body, ok, rows) ==
    /\ incoming_msg(Body) # ""
    /\ ~IsCancel(Body)
    /\ ~IsStats(Body)
    /\ IsLast(Body)
    /\ data' = get_sheet_data(ok, rows)
    /\ resp' = IF data' # <<>> /\ Len(data') > 0
               THEN [kind |-> "last_expense", row |-> data'[Len(data')]]
               ELSE [kind |-> "no_expenses"]
    /\ UNCHANGED <<pending_expenses, custom_table, threads>>

\* to_category without the assignment of app.py:316
to_category_date_dropped(pending, final_date) ==
    SetKey(pending, "waiting_for", "category")

\* app.py:316-318: the session with the date filled in, now waiting for the category
to_category(pending, final_date) ==
    SetKey(SetKey(pending, "date", final_date), "waiting_for", "category")

\* AwaitingDate that gives the session up when the date does not resolve
AwaitingDate_gives_up(from_number, Body, answer, cats_ok) ==
    /\ WaitingFor(from_number, Body, "date")
    /\ LET pending == pending_expenses[from_number]
           final_date == parse_date_with_gemini(answer)
       IN  IF final_date = ""
           THEN /\ resp' = [kind |-> "date_reprompt"]
                /\ pending_expenses' = Del(from_number)
                /\ UNCHANGED <<custom_table, threads>>
           ELSE IF Get(pending, "category", "") = "uncertain"
           THEN /\ pending_expenses' =
                       [pending_expenses EXCEPT ![from_number] =
                           to_category(pending, final_date)]
                /\ resp' = [kind |-> "choose_category",
                            cat_list |-> cat_list(get_custom_categories(cats_ok))]
                /\ UNCHANGED <<custom_table, threads>>
           ELSE LET e == Expense(final_date, pending.amount,
                                 pending.description, pending.category)
                IN  /\ resp' = Adding
                    /\ StartThread(e)
                    /\ pending_expenses' = Del(from_number)
                    /\ UNCHANGED custom_table

\* app.py:306-347
AwaitingDate(from_number, Body, answer, cats_ok) ==
    /\ WaitingFor(from_number, Body, "date")
    /\ LET pending == pending_expenses[from_number]
           final_date == parse_date_with_gemini(answer)
       IN  IF final_date = ""
           THEN /\ resp' = [kind |-> "date_reprompt"]
                /\ UNCHANGED <<pending_expenses, custom_table, threads>>
           ELSE IF Get(pending, "category", "") = "uncertain"
           THEN /\ pending_expenses' =
                       [pending_expenses EXCEPT ![from_number] =
                           to_category(pending, final_date)]
                /\ resp' = [kind |-> "choose_category",
                            cat_list |-> cat_list(get_custom_categories(cats_ok))]
                /\ UNCHANGED <<custom_table, threads>>
           ELSE LET e == Expense(final_date, pending.amount,
                                 pending.description, pending.category)
                IN  /\ resp' = Adding
                    /\ StartThread(e)
                    /\ pending_expenses' = Del(from_number)
                    /\ UNCHANGED custom_table

\* app.py:349-408
AwaitingCategory(from_number, Body, cats_ok, again_ok) ==
    /\ WaitingFor(from_number, Body, "category")
    /\ LET pending == pending_expenses[from_number]
           category_input == Strip(incoming_msg(Body))
           chosen == final_category(category_input, get_custom_categories(cats_ok))
       IN  IF chosen = ""
           THEN /\ resp' = [kind |-> "invalid_category",
                            cat_list |-> cat_list(get_custom_categories(again_ok))]
                /\ UNCHANGED <<pending_expenses, custom_table, threads>>
           ELSE LET e == Expense(pending.date, pending.amount,
                                 pending.description, chosen)
                IN  /\ resp' = Adding
                    /\ StartThread(e)
                    /\ pending_expenses' = Del(from_number)
                    /\ UNCHANGED custom_table

\* app.py:46-67: the store adds the name to its table when the POST succeeds
save_custom_category(category_name, ok) ==
    IF ok
    THEN /\ Len(custom_table) < MaxCustom
         /\ custom_table' = Append(custom_table, category_name)
    ELSE UNCHANGED custom_table

\* name_refused without the length test
name_refused_only_empty(custom_category) == custom_category = ""

\* app.py:414: the name is refused when empty or shorter than 2 characters
name_refused(custom_category) == custom_category = "" \/ Len(custom_category) < 2

\* app.py:410-441
AwaitingCustomCategory(from_number, Body, save_ok) ==
    /\ WaitingFor(from_number, Body, "custom_category")
    /\ LET pending == pending_expenses[from_number]
           custom_category == Strip(incoming_msg(Body))
       IN  IF name_refused(custom_category)
           THEN /\ resp' = [kind |-> "custom_reprompt"]
                /\ UNCHANGED <<pending_expenses, custom_table, threads>>
           ELSE LET e == Expense(pending.date, pending.amount,
                                 pending.description, custom_category)
                IN  /\ save_custom_category(custom_category, save_ok)
                    /\ resp' = Adding
                    /\ StartThread(e)
                    /\ pending_expenses' = Del(from_number)

\* first_match with the category tests ahead of the date test
first_match_category_first(parsed_data) ==
    IF \/ parsed_data = ParseFailed
       \/ ~(HasKey(parsed_data, "amount") /\ HasKey(parsed_data, "description"))
    THEN "not_understood"
    ELSE IF Get(parsed_data, "category", "") = "uncertain" THEN "choose_category"
    ELSE IF Get(parsed_data, "category", "") = "Other" THEN "ask_custom_category"
    ELSE IF Get(parsed_data, "date", "") = "missing" THEN "ask_date"
    ELSE "adding"

\* app.py:447-490: which of the six ways out of the new-expense path the parsed
\* answer takes, first match first
first_match(parsed_data) ==
    IF \/ parsed_data = ParseFailed
       \/ ~(HasKey(parsed_data, "amount") /\ HasKey(parsed_data, "description"))
    THEN "not_understood"
    ELSE IF Get(parsed_data, "date", "") = "missing" THEN "ask_date"
    ELSE IF Get(parsed_data, "category", "") = "uncertain" THEN "choose_category"
    ELSE IF Get(parsed_data, "category", "") = "Other" THEN "ask_custom_category"
    ELSE "adding"

\* NewExpense reached by every message that is no command, session or not
NewExpense_any_time(from_number, Body, answer, cats_ok) ==
    /\ PastCommands(Body)
    /\ LET parsed_data == parse_expense_with_gemini(answer)
           way == first_match(parsed_data)
       IN  CASE way = "not_understood" ->
                /\ resp' = [kind |-> "not_understood"]
                /\ UNCHANGED <<pending_expenses, custom_table, threads>>
             [] way = "ask_date" ->
                /\ pending_expenses' =
                       [pending_expenses EXCEPT ![from_number] =
                           [amount |-> parsed_data.amount,
                            description |-> parsed_data.description,
                            category |-> Get(parsed_data, "category", "uncertain"),
                            waiting_for |-> "date"]]
                /\ resp' = [kind |-> "ask_date"]
                /\ UNCHANGED <<custom_table, threads>>
             [] way \in {"choose_category", "ask_custom_category"} ->
                IF ~HasKey(parsed_data, "date")
                THEN /\ resp' = [kind |-> "error"]
                     /\ UNCHANGED <<pending_expenses, custom_table, threads>>
                ELSE /\ pending_expenses' =
                            [pending_expenses EXCEPT ![from_number] =
                                [date |-> parsed_data.date,
                                 amount |-> parsed_data.amount,
                                 description |-> parsed_data.description,
                                 waiting_for |-> IF way = "choose_category"
                                                 THEN "category" ELSE "custom_category"]]
                     /\ resp' = IF way = "choose_category"
                                THEN [kind |-> "choose_category",
                                      cat_list |-> cat_list(get_custom_categories(cats_ok))]
                                ELSE [kind |-> "ask_custom_category"]
                     /\ UNCHANGED <<custom_table, threads>>
             [] way = "adding" ->
                IF ~(HasKey(parsed_data, "date") /\ HasKey(parsed_data, "category"))
                THEN /\ resp' = [kind |-> "error"]
                     /\ UNCHANGED <<pending_expenses, custom_table, threads>>
                ELSE LET e == Expense(parsed_data.date, parsed_data.amount,
                                      parsed_data.description, parsed_data.category)
                     IN  /\ resp' = Adding
                         /\ StartThread(e)
                         /\ UNCHANGED <<pending_expenses, custom_table>>

\* app.py:443-507: the message of a sender with no session (or with a session
\* whose waiting_for is none of the three) goes to the text understanding
NewExpense(from_number, Body, answer, cats_ok) ==
    /\ PastCommands(Body)
    /\ ~(/\ InPending(from_number)
         /\ pending_expenses[from_number].waiting_for \in {"date", "category", "custom_category"})
    /\ LET parsed_data == parse_expense_with_gemini(answer)
           way == first_match(parsed_data)
       IN  CASE way = "not_understood" ->
                /\ resp' = [kind |-> "not_understood"]
                /\ UNCHANGED <<pending_expenses, custom_table, threads>>
             [] way = "ask_date" ->
                /\ pending_expenses' =
                       [pending_expenses EXCEPT ![from_number] =
                           [amount |-> parsed_data.amount,
                            description |-> parsed_data.description,
                            category |-> Get(parsed_data, "category", "uncertain"),
                            waiting_for |-> "date"]]
                /\ resp' = [kind |-> "ask_date"]
                /\ UNCHANGED <<custom_table, threads>>
             [] way \in {"choose_category", "ask_custom_category"} ->
                IF ~HasKey(parsed_data, "date")
                THEN \* parsed_data['date'] raises KeyError before the assignment
                     /\ resp' = [kind |-> "error"]
                     /\ UNCHANGED <<pending_expenses, custom_table, threads>>
                ELSE /\ pending_expenses' =
                            [pending_expenses EXCEPT ![from_number] =
                                [date |-> parsed_data.date,
                                 amount |-> parsed_data.amount,
                                 description |-> parsed_data.description,
                                 waiting_for |-> IF way = "choose_category"
                                                 THEN "category" ELSE "custom_category"]]
                     /\ resp' = IF way = "choose_category"
                                THEN [kind |-> "choose_category",
                                      cat_list |-> cat_list(get_custom_categories(cats_ok))]
                                ELSE [kind |-> "ask_custom_category"]
                     /\ UNCHANGED <<custom_table, threads>>
             [] way = "adding" ->
                IF ~(HasKey(parsed_data, "date") /\ HasKey(parsed_data, "category"))
                THEN \* the f-string at app.py:491 raises KeyError: no reply, no thread
                     /\ resp' = [kind |-> "error"]
                     /\ UNCHANGED <<pending_expenses, custom_table, threads>>
                ELSE LET e == Expense(parsed_data.date, parsed_data.amount,
                                      parsed_data.description, parsed_data.category)
                     IN  /\ resp' = Adding
                         /\ StartThread(e)
                         /\ UNCHANGED <<pending_expenses, custom_table>>

\* add_in_background whose failed POST is put in the reply
add_in_background_reports(e, ok) ==
    /\ BagIn(e, threads)
    /\ threads' = threads (-) SetToBag({e})
    /\ resp' = IF ok THEN resp ELSE [kind |-> "append_failed"]
    /\ UNCHANGED <<pending_expenses, custom_table, request, data, running>>

\* app.py:161-190, run by the thread: one POST, its outcome dropped
add_in_background(e, ok) ==
    /\ BagIn(e, threads)
    /\ threads' = threads (-) SetToBag({e})
    /\ UNCHANGED <<pending_expenses, custom_table, request, resp, data, running>>

-----------------------------------------------------------------------------

Init ==
    /\ pending_expenses = [s \in Senders |-> NoSession]
    /\ custom_table = <<>>
    /\ threads = EmptyBag
    /\ request = NoRequest
    /\ resp = EmptyResponse
    /\ data = <<>>
    /\ running = [h \in Workers |-> Idle]

\* app.py:243-252: a POST to /webhook arrives, request.values holds From and Body,
\* and the handler starts from an empty MessagingResponse
Receive(from_number, Body) ==
    /\ request = NoRequest
    /\ request' = [From |-> from_number, Body |-> Body]
    /\ resp' = EmptyResponse
    /\ data' = <<>>
    /\ UNCHANGED <<pending_expenses, custom_table, threads, running>>

\* the handler runs on the message that arrived and returns its reply
Handling(from_number, Body) ==
    /\ request = [From |-> from_number, Body |-> Body]
    /\ request' = NoRequest
    /\ UNCHANGED running

\* app.py:240-507: one run of the handler on the message, along the route the
\* message takes, with the answers of the outside services it meets on the way
whatsapp_webhook(from_number, Body) ==
    \/ /\ Handling(from_number, Body)
       /\ EmptyBody(from_number, Body)
       /\ UNCHANGED data
    \/ /\ Handling(from_number, Body)
       /\ CancelReset(from_number, Body)
       /\ UNCHANGED data
    \/ /\ Handling(from_number, Body)
       /\ IsStats(Body)
       /\ \E ok \in BOOLEAN, rows \in SheetRows : StatsCommand(from_number, Body, ok, rows)
    \/ /\ Handling(from_number, Body)
       /\ IsLast(Body)
       /\ \E ok \in BOOLEAN, rows \in SheetRows : LastCommand(from_number, Body, ok, rows)
    \/ /\ Handling(from_number, Body)
       /\ WaitingFor(from_number, Body, "date")
       /\ \E answer \in GeminiDateAnswers, ok \in BOOLEAN :
              AwaitingDate(from_number, Body, answer, ok)
       /\ UNCHANGED data
    \/ /\ Handling(from_number, Body)
       /\ WaitingFor(from_number, Body, "category")
       /\ \E ok \in BOOLEAN, again \in BOOLEAN :
              AwaitingCategory(from_number, Body, ok, again)
       /\ UNCHANGED data
    \/ /\ Handling(from_number, Body)
       /\ WaitingFor(from_number, Body, "custom_category")
       /\ \E ok \in BOOLEAN : AwaitingCustomCategory(from_number, Body, ok)
       /\ UNCHANGED data
    \/ /\ Handling(from_number, Body)
       /\ PastCommands(Body)
       /\ ~InPending(from_number)
       /\ \E answer \in GeminiExpenseAnswers, ok \in BOOLEAN :
              NewExpense(from_number, Body, answer, ok)
       /\ UNCHANGED data

Next ==
    \/ \E s \in Talking, b \in Bodies : Receive(s, b)
    \/ \E s \in Talking, b \in Bodies : whatsapp_webhook(s, b)
    \/ \E e \in BagToSet(threads), ok \in BOOLEAN : add_in_background(e, ok)

Spec == Init /\ [][Next]_vars

-----------------------------------------------------------------------------
(* Two runs of the handler side by side, each worker on one message. A step *)
(* of a run goes from one outside call to the next: other runs may read and *)
(* write pending_expenses while the call is under way.                      *)

\* the messages of the two runs
ConcBodies == {"  ", " Cancel ", "today", "18 oct", "3", "Transport"}

\* what each sender's expense is about
DescriptionOf(from_number) == IF from_number = "A" THEN "groceries" ELSE "cement"

\* the sessions a sender may have open when the runs start (app.py:453-458,
\* 464-469, 481-486)
OpenSessions(from_number) ==
    [amount : Amounts, description : {DescriptionOf(from_number)},
     category : {"Labour", "uncertain"}, waiting_for : {"date"}]
    \cup [date : {Today}, amount : Amounts, description : {DescriptionOf(from_number)},
          waiting_for : {"category", "custom_category"}]

\* what the text understanding may answer on a message of the sender
ConcAnswers(from_number) ==
    [date : {Today, "missing"}, amount : Amounts,
     description : {DescriptionOf(from_number)}, category : ExtractedCategories]
    \cup {[text |-> "not json"]}

InitConc ==
    /\ pending_expenses \in
           {f \in [Senders -> UNION {OpenSessions(s) : s \in Senders} \cup {NoSession}] :
               \A s \in Senders : f[s] \in OpenSessions(s) \cup {NoSession}}
    /\ custom_table = <<>>
    /\ threads = EmptyBag
    /\ request = NoRequest
    /\ resp = EmptyResponse
    /\ data = <<>>
    /\ running = [h \in Workers |-> Idle]

\* the run of worker w is at pc, with more local variables set
Goes(w, pc, locals) ==
    running' = [running EXCEPT ![w] = [k \in DOMAIN @ \cup DOMAIN locals \cup {"pc"} |->
                                          IF k = "pc" THEN pc
                                          ELSE IF k \in DOMAIN locals THEN locals[k]
                                          ELSE @[k]]]

\* return str(resp)
Returns(w, reply) == Goes(w, "done", [resp |-> reply])

\* app.py:243-306, 349-353, 410-421, 443-445: the run starts on the message and
\* goes up to its first outside call, or to its reply when it makes none that
\* another run could see
Begin(w, from_number, Body) ==
    /\ running[w] = Idle
    /\ LET start == [pc |-> "start", From |-> from_number, Body |-> Body]
           At(pc, locals) ==
               running' = [running EXCEPT ![w] =
                              [k \in DOMAIN start \cup DOMAIN locals |->
                                  IF k = "pc" THEN pc
                                  ELSE IF k \in DOMAIN locals THEN locals[k]
                                  ELSE start[k]]]
       IN  IF incoming_msg(Body) = ""
           THEN /\ At("done", [resp |-> [kind |-> "send_expense_prompt"]])
                /\ UNCHANGED pending_expenses
           ELSE IF IsCancel(Body)
           THEN IF InPending(from_number)
                THEN /\ pending_expenses' = Del(from_number)
                     /\ At("done", [resp |-> [kind |-> "cancelled"]])
                ELSE /\ UNCHANGED pending_expenses
                     /\ At("done", [resp |-> [kind |-> "nothing_to_cancel"]])
           ELSE IF IsStats(Body)
           THEN /\ \E ok \in BOOLEAN, rows \in SheetRows :
                       At("done", [resp |-> IF get_sheet_data(ok, rows) # <<>>
                                           THEN StatsReply(command(Body), rows)
                                           ELSE [kind |-> "no_data"]])
                /\ UNCHANGED pending_expenses
           ELSE IF InPending(from_number)
           THEN LET pending == pending_expenses[from_number]
                IN  /\ UNCHANGED pending_expenses
                    /\ CASE pending.waiting_for = "date" ->
                                At("parse_date", [pending |-> pending])
                          [] pending.waiting_for = "category" ->
                                At("get_custom_categories", [pending |-> pending])
                          [] pending.waiting_for = "custom_category" ->
                                IF name_refused(Strip(incoming_msg(Body)))
                                THEN At("done", [resp |-> [kind |-> "custom_reprompt"]])
                                ELSE At("save_custom_category", [pending |-> pending])
           ELSE /\ At("parse_expense", << >>)
                /\ UNCHANGED pending_expenses
    /\ UNCHANGED <<custom_table, threads, request, resp, data>>

\* app.py:343-347, 404-408, 437-441: thread.start(), then del of the sender's
\* key, which raises KeyError when another run has removed the key since this
\* run read it: the thread is started and the run ends without a reply
Completes(w, e) ==
    LET from_number == running[w].From
    IN  /\ StartThread(e)
        /\ IF InPending(from_number)
           THEN /\ pending_expenses' = Del(from_number)
                /\ Goes(w, "done", [resp |-> Adding, sent |-> e])
           ELSE /\ UNCHANGED pending_expenses
                /\ Goes(w, "KeyError", [sent |-> e])

\* app.py:308-347: parse_date_with_gemini has answered
AfterParseDate(w, answer, cats_ok) ==
    /\ running[w].pc = "parse_date"
    /\ LET from_number == running[w].From
           pending == running[w].pending
           final_date == parse_date_with_gemini(answer)
       IN  IF final_date = ""
           THEN /\ Returns(w, [kind |-> "date_reprompt"])
                /\ UNCHANGED <<pending_expenses, threads>>
           ELSE IF Get(pending, "category", "") = "uncertain"
           THEN /\ pending_expenses' =
                       [pending_expenses EXCEPT ![from_number] =
                           to_category(pending, final_date)]
                /\ Returns(w, [kind |-> "choose_category",
                               cat_list |-> cat_list(get_custom_categories(cats_ok))])
                /\ UNCHANGED threads
           ELSE Completes(w, Expense(final_date, pending.amount,
                                     pending.description, pending.category))
    /\ UNCHANGED <<custom_table, request, resp, data>>

\* app.py:353-408: get_custom_categories has answered
AfterGetCategories(w, cats_ok, again_ok) ==
    /\ running[w].pc = "get_custom_categories"
    /\ LET pending == running[w].pending
           category_input == Strip(incoming_msg(running[w].Body))
           chosen == final_category(category_input, get_custom_categories(cats_ok))
       IN  IF chosen = ""
           THEN /\ Returns(w, [kind |-> "invalid_category",
                               cat_list |-> cat_list(get_custom_categories(again_ok))])
                /\ UNCHANGED <<pending_expenses, threads>>
           ELSE Completes(w, Expense(pending.date, pending.amount,
                                     pending.description, chosen))
    /\ UNCHANGED <<custom_table, request, resp, data>>

\* app.py:421-441: save_custom_category has answered
AfterSaveCategory(w, save_ok) ==
    /\ running[w].pc = "save_custom_category"
    /\ LET pending == running[w].pending
           custom_category == Strip(incoming_msg(running[w].Body))
       IN  /\ save_custom_category(custom_category, save_ok)
           /\ Completes(w, Expense(pending.date, pending.amount,
                                   pending.description, custom_category))
    /\ UNCHANGED <<request, resp, data>>

\* app.py:445-507: parse_expense_with_gemini has answered; the session is
\* written under the sender's key whatever the key holds by now
AfterParseExpense(w, answer, cats_ok) ==
    /\ running[w].pc = "parse_expense"
    /\ LET from_number == running[w].From
           parsed_data == parse_expense_with_gemini(answer)
           way == first_match(parsed_data)
       IN  CASE way = "not_understood" ->
                /\ Returns(w, [kind |-> "not_understood"])
                /\ UNCHANGED <<pending_expenses, threads>>
             [] way = "ask_date" ->
                /\ pending_expenses' =
                       [pending_expenses EXCEPT ![from_number] =
                           [amount |-> parsed_data.amount,
                            description |-> parsed_data.description,
                            category |-> Get(parsed_data, "category", "uncertain"),
                            waiting_for |-> "date"]]
                /\ Returns(w, [kind |-> "ask_date"])
                /\ UNCHANGED threads
             [] way \in {"choose_category", "ask_custom_category"} ->
                /\ pending_expenses' =
                       [pending_expenses EXCEPT ![from_number] =
                           [date |-> parsed_data.date,
                            amount |-> parsed_data.amount,
                            description |-> parsed_data.description,
                            waiting_for |-> IF way = "choose_category"
                                            THEN "category" ELSE "custom_category"]]
                /\ Returns(w, IF way = "choose_category"
                              THEN [kind |-> "choose_category",
                                    cat_list |-> cat_list(get_custom_categories(cats_ok))]
                              ELSE [kind |-> "ask_custom_category"])
                /\ UNCHANGED threads
             [] way = "adding" ->
                LET e == Expense(parsed_data.date, parsed_data.amount,
                                 parsed_data.description, parsed_data.category)
                IN  /\ StartThread(e)
                    /\ Goes(w, "done", [resp |-> Adding, sent |-> e])
                    /\ UNCHANGED pending_expenses
    /\ UNCHANGED <<custom_table, request, resp, data>>

NextConc ==
    \/ \E w \in Workers, s \in Senders, b \in ConcBodies : Begin(w, s, b)
    \/ \E w \in Workers, answer \in GeminiDateAnswers, ok \in BOOLEAN :
           AfterParseDate(w, answer, ok)
    \/ \E w \in Workers, ok \in BOOLEAN, again \in BOOLEAN :
           AfterGetCategories(w, ok, again)
    \/ \E w \in Workers, ok \in BOOLEAN : AfterSaveCategory(w, ok)
    \/ \E w \in Workers :
           /\ running[w].pc = "parse_expense"
           /\ \E answer \in ConcAnswers(running[w].From), ok \in BOOLEAN :
                  AfterParseExpense(w, answer, ok)
    \/ \E e \in BagToSet(threads), ok \in BOOLEAN : add_in_background(e, ok)

SpecConc == InitConc /\ [][NextConc]_vars

-----------------------------------------------------------------------------
(* The stats commands over the sheets the store may list. *)

StatsBodies == {"today", "week", "month"}

\* the dates a row of the sheet may carry: today, tomorrow, 7 and 8 days ago, a
\* year ago, and one written year first
LedgerDates == {"06-11-2026", "07-11-2026", "30-10-2026", "29-10-2026",
                "06-11-2025", "2026-11-06"}

\* app.py:201: the rows response.json() may give
LedgerRows ==
    [date : LedgerDates, amount : {"500", "250", "0"},
     description : Descriptions, category : {"Labour", "Fuel"}]

Ledgers == UNION {[1..n -> LedgerRows] : n \in 0..MaxRows}

\* app.py:271-289 on a message that is a stats command
stats_webhook(from_number, Body) ==
    /\ Handling(from_number, Body)
    /\ \E ok \in BOOLEAN, rows \in Ledgers : StatsCommand(from_number, Body, ok, rows)

NextStats ==
    \/ \E s \in Talking, b \in StatsBodies : Receive(s, b)
    \/ \E s \in Talking, b \in StatsBodies : stats_webhook(s, b)

SpecStats == Init /\ [][NextStats]_vars

-----------------------------------------------------------------------------
(* The category reply over the custom categories the store may list. *)

\* names a sender may have registered: two characters or more (app.py:414)
CustomNames == {"Transport", "transport", "10", "food", "rent", "tools", "tea"}

\* the custom-category table: each name once, in the order it was registered
Snapshots ==
    {t \in UNION {[1..n -> CustomNames] : n \in 0..MaxSnapshot} :
        \A i, j \in 1..Len(t) : t[i] = t[j] => i = j}

\* the replies to the category menu: a position, a fixed name or a custom name
ResolveBodies ==
    {Str(n) : n \in 1..11} \cup {"Cable", "Labour", "Material Purchase", "Fuel"}
        \cup CustomNames

\* app.py:464-469: A's session waits for the category
InitResolve ==
    /\ pending_expenses =
           [s \in Senders |->
               IF s = "A"
               THEN [date |-> Today, amount |-> "500", description |-> "groceries",
                     waiting_for |-> "category"]
               ELSE NoSession]
    /\ custom_table \in Snapshots
    /\ threads = EmptyBag
    /\ request = NoRequest
    /\ resp = EmptyResponse
    /\ data = <<>>
    /\ running = [h \in Workers |-> Idle]

\* app.py:349-408 on a reply to the category menu
resolve_webhook(from_number, Body) ==
    /\ Handling(from_number, Body)
    /\ \E ok \in BOOLEAN, again \in BOOLEAN :
           AwaitingCategory(from_number, Body, ok, again)
    /\ UNCHANGED data

NextResolve ==
    \/ \E s \in Talking, b \in ResolveBodies : InPending(s) /\ Receive(s, b)
    \/ \E s \in Talking, b \in ResolveBodies : resolve_webhook(s, b)

SpecResolve == InitResolve /\ [][NextResolve]_vars

-----------------------------------------------------------------------------
(* One conversation over expenses that differ in amount and description, so *)
(* that a session written again by a later message shows.                   *)

\* the messages of the conversation: nothing, two commands, and replies that
\* resolve or fail to resolve a date, a category and a custom name
SessionBodies == {"  ", " Cancel ", "today", "last", "18 oct", "3", "Transport"}

\* what the model may answer to the prompt of parse_expense_with_gemini: the JSON
\* object of one of two expenses, groceries for 500 or cement for 250, or a text
\* that is no JSON
SessionAnswers ==
    [date : {Today, "missing"}, amount : {"500"},
     description : {"groceries"}, category : ExtractedCategories]
        \cup [date : {Today, "missing"}, amount : {"250"},
              description : {"cement"}, category : ExtractedCategories]
        \cup {[text |-> "not json"]}

\* what the model may answer to the date prompt
SessionDateAnswers == {Today, "I cannot tell"}

\* app.py:240-507: one run of the handler on the message. The last route is
\* guarded by NewExpense alone: the message reaches app.py:445 when none of the
\* returns above it was taken.
session_webhook(from_number, Body) ==
    \/ /\ Handling(from_number, Body)
       /\ EmptyBody(from_number, Body)
       /\ UNCHANGED data
    \/ /\ Handling(from_number, Body)
       /\ CancelReset(from_number, Body)
       /\ UNCHANGED data
    \/ /\ Handling(from_number, Body)
       /\ IsStats(Body)
       /\ \E ok \in BOOLEAN, rows \in SheetRows : StatsCommand(from_number, Body, ok, rows)
    \/ /\ Handling(from_number, Body)
       /\ IsLast(Body)
       /\ \E ok \in BOOLEAN, rows \in SheetRows : LastCommand(from_number, Body, ok, rows)
    \/ /\ Handling(from_number, Body)
       /\ WaitingFor(from_number, Body, "date")
       /\ \E answer \in SessionDateAnswers, ok \in BOOLEAN :
              AwaitingDate(from_number, Body, answer, ok)
       /\ UNCHANGED data
    \/ /\ Handling(from_number, Body)
       /\ WaitingFor(from_number, Body, "category")
       /\ \E ok \in BOOLEAN, again \in BOOLEAN :
              AwaitingCategory(from_number, Body, ok, again)
       /\ UNCHANGED data
    \/ /\ Handling(from_number, Body)
       /\ WaitingFor(from_number, Body, "custom_category")
       /\ \E ok \in BOOLEAN : AwaitingCustomCategory(from_number, Body, ok)
       /\ UNCHANGED data
    \/ /\ Handling(from_number, Body)
       /\ PastCommands(Body)
       /\ \E answer \in SessionAnswers, ok \in BOOLEAN :
              NewExpense(from_number, Body, answer, ok)
       /\ UNCHANGED data

NextSession ==
    \/ \E s \in Talking, b \in SessionBodies : Receive(s, b)
    \/ \E s \in Talking, b \in SessionBodies : session_webhook(s, b)
    \/ \E e \in BagToSet(threads), ok \in BOOLEAN : add_in_background(e, ok)

SpecSession == Init /\ [][NextSession]_vars

-----------------------------------------------------------------------------
(* The claims. *)

\* the threads in the successor state are those of this state and one more, on e
OneMoreThread(e) == threads' = threads (+) SetToBag({e})

\* this step is a run of the handler, from the arrival of the message to the reply
Handled == request # NoRequest /\ request' = NoRequest

\* every sender but s keeps its session
OthersKeep(s) == \A o \in Senders \ {s} : pending_expenses'[o] = pending_expenses[o]

\* C1: every expense handed to add_expense_to_sheet has its four fields non-empty
\* and a concrete category, never "uncertain" and never "Other".
C1_SubmittedExpensesAreConcrete ==
    \A e \in BagToSet(threads) :
        /\ e.date # "" /\ e.amount # "" /\ e.description # "" /\ e.category # ""
        /\ e.category \notin {"uncertain", "Other"}

\* C2: a message of a sender with no session whose extraction has the four fields
\* is settled by first match: date missing opens a session waiting for the date
\* that carries amount, description and the extracted category; else category
\* uncertain opens one waiting for the category; else category Other opens one
\* waiting for the custom name; else the expense is handed to the ledger at once
\* and no session is made.
C2_FirstMatchOrder ==
    [][\A answer \in FullPayloads, ok \in BOOLEAN :
         LET s == request.From
         IN  (Handled /\ ~InPending(s) /\ NewExpense(s, request.Body, answer, ok)) =>
               /\ OthersKeep(s)
               /\ IF answer.date = "missing"
                  THEN /\ pending_expenses'[s] =
                              [amount |-> answer.amount, description |-> answer.description,
                               category |-> answer.category, waiting_for |-> "date"]
                       /\ threads' = threads
                  ELSE IF answer.category = "uncertain"
                  THEN /\ pending_expenses'[s] =
                              [date |-> answer.date, amount |-> answer.amount,
                               description |-> answer.description,
                               waiting_for |-> "category"]
                       /\ threads' = threads
                  ELSE IF answer.category = "Other"
                  THEN /\ pending_expenses'[s] =
                              [date |-> answer.date, amount |-> answer.amount,
                               description |-> answer.description,
                               waiting_for |-> "custom_category"]
                       /\ threads' = threads
                  ELSE /\ OneMoreThread(Expense(answer.date, answer.amount,
                                                answer.description, answer.category))
                       /\ pending_expenses'[s] = NoSession
      ]_vars

\* the date was missing and the category was Other: the date question comes first
C2_Witness ==
    /\ resp.kind = "ask_date"
    /\ pending_expenses["A"].waiting_for = "date"
    /\ pending_expenses["A"].category = "Other"

\* C3: a reply that resolves to a date, in a session waiting for the date: with the
\* category uncertain the session goes on to wait for the category, the date
\* stored, amount and description as they were, nothing handed to the ledger;
\* otherwise one expense is handed over, with the resolved date and the session's
\* amount, description and category, and the session is removed.
C3_DateResolved ==
    [][\A answer \in Dates, ok \in BOOLEAN :
         LET s == request.From
         IN  (Handled /\ AwaitingDate(s, request.Body, answer, ok)) =>
               LET p == pending_expenses[s]
               IN  /\ OthersKeep(s)
                   /\ IF p.category = "uncertain"
                      THEN /\ pending_expenses'[s] =
                                  [date |-> answer, amount |-> p.amount,
                                   description |-> p.description,
                                   category |-> "uncertain", waiting_for |-> "category"]
                           /\ threads' = threads
                      ELSE /\ OneMoreThread(Expense(answer, p.amount, p.description,
                                                    p.category))
                           /\ pending_expenses'[s] = NoSession
      ]_vars

\* a session that came from the date question and now waits for the category
C3_Witness ==
    /\ resp.kind = "choose_category"
    /\ pending_expenses["A"].waiting_for = "category"
    /\ HasKey(pending_expenses["A"], "category")
    /\ pending_expenses["A"].date = "18-10-2026"

\* C4: a reply that resolves, by number or by name whatever its case, to a concrete
\* category, in a session waiting for the category: one expense is handed to the
\* ledger, with the session's date, amount and description and the resolved
\* category, and the session is removed. The reply "3" gives Material Purchase.
C4_CategoryResolved ==
    [][\A ok \in BOOLEAN, again \in BOOLEAN :
         LET s == request.From
             p == pending_expenses[s]
             input == Strip(request.Body)
             offered == cat_list(get_custom_categories(ok))
             chosen == final_category(input, get_custom_categories(ok))
         IN  (/\ Handled
              /\ AwaitingCategory(s, request.Body, ok, again)
              /\ chosen \notin {"", "uncertain", "Other"}) =>
               /\ OneMoreThread(Expense(p.date, p.amount, p.description, chosen))
               /\ pending_expenses'[s] = NoSession
               /\ OthersKeep(s)
               /\ resp'.kind = "adding"
               /\ input = "3" => chosen = "Material Purchase"
               /\ \E i \in 1..Len(offered) :
                      /\ offered[i] = chosen
                      /\ input = Str(i) \/ Lower(input) = Lower(chosen)
      ]_vars

\* the reply "3" was taken: Material Purchase comes from no other place
C4_Witness ==
    /\ resp.kind = "adding"
    /\ pending_expenses["A"] = NoSession
    /\ \E e \in BagToSet(threads) : e.category = "Material Purchase"

\* C5: the reply "other", in a session waiting for the category, moves the session
\* to wait for the custom name, date, amount and description kept, asks for the
\* name, and hands nothing to the ledger.
C5_OtherSlotAsksCustomName ==
    [][LET s == request.From
           p == pending_expenses[s]
       IN  (/\ Handled
            /\ WaitingFor(s, request.Body, "category")
            /\ Lower(Strip(request.Body)) = "other") =>
              /\ pending_expenses'[s].waiting_for = "custom_category"
              /\ pending_expenses'[s].date = p.date
              /\ pending_expenses'[s].amount = p.amount
              /\ pending_expenses'[s].description = p.description
              /\ resp'.kind = "ask_custom_category"
              /\ threads' = threads
      ]_vars

\* C6: a name X of two characters or more, in a session waiting for the custom
\* name: when the expense is handed to the ledger X is in the store's table, so
\* the menu built from the table offers it; the expense has category X and the
\* session is removed.
C6_CustomNameRegisteredBeforeAppend ==
    [][LET s == request.From
           p == pending_expenses[s]
           X == Strip(request.Body)
       IN  (/\ Handled
            /\ WaitingFor(s, request.Body, "custom_category")
            /\ Len(X) >= 2) =>
              /\ \E i \in 1..Len(custom_table') : custom_table'[i] = X
              /\ \E i \in 5..(4 + Len(Keys(custom_table'))) :
                     cat_list(Keys(custom_table'))[i] = X
              /\ OneMoreThread(Expense(p.date, p.amount, p.description, X))
              /\ pending_expenses'[s] = NoSession
      ]_vars

C8_CancelClearsSession ==
    [][LET s == request.From
       IN  (Handled /\ request.Body \in {" Cancel ", "reset"}) =>
             /\ threads' = threads
             /\ custom_table' = custom_table
             /\ OthersKeep(s)
             /\ pending_expenses'[s] = NoSession
             /\ resp'.kind = IF InPending(s) THEN "cancelled" ELSE "nothing_to_cancel"
      ]_vars

\* a session was cancelled
C8_Witness ==
    /\ resp.kind = "cancelled"
    /\ pending_expenses["A"] = NoSession

\* C9: "today", "week" or "month" from a sender with an open session is answered
\* by the stats or by the could-not-retrieve reply, and leaves the session map as
\* it was; nothing is handed to the ledger.
C9_StatsLeavesSession ==
    [][(/\ Handled
        /\ request.Body \in {"today", "week", "month"}
        /\ InPending(request.From)) =>
          /\ resp'.kind \in {"stats", "no_data"}
          /\ UNCHANGED <<pending_expenses, custom_table, threads>>
      ]_vars

\* stats were given while the session waits for the date
C9_Witness ==
    /\ resp.kind = "stats"
    /\ pending_expenses["A"].waiting_for = "date"

\* C10: in a session waiting for the date, the replies the date prompt gives as
\* examples are taken as the date once resolved: the session leaves the date
\* state, for the category state with that date or by handing over the expense
\* with that date; the reply "today" gives the current date.
C10_DateExamplesAreTakenAsDates ==
    [][LET s == request.From
           b == request.Body
           p == pending_expenses[s]
           TakenAs(d) ==
               \/ /\ pending_expenses'[s].waiting_for = "category"
                  /\ pending_expenses'[s].date = d
               \/ /\ pending_expenses'[s] = NoSession
                  /\ OneMoreThread(Expense(d, p.amount, p.description, p.category))
       IN  (Handled /\ InPending(s) /\ p.waiting_for = "date") =>
             /\ b = "today" => TakenAs(Today)
             /\ b = "18 oct" =>
                    \A answer \in Dates, ok \in BOOLEAN :
                        AwaitingDate(s, b, answer, ok) => TakenAs(answer)
      ]_vars

\* C11: for a message of a sender with no session, an extraction that failed or
\* that lacks any of date, amount, description, category is answered by the
\* "couldn't understand" reply: the handler does not raise, makes no session and
\* hands nothing to the ledger.
C11_BadExtractionIsNotUnderstood ==
    [][\A answer \in GeminiExpenseAnswers \ FullPayloads, ok \in BOOLEAN :
         LET s == request.From
         IN  (Handled /\ ~InPending(s) /\ NewExpense(s, request.Body, answer, ok)) =>
               /\ resp'.kind = "not_understood"
               /\ UNCHANGED <<pending_expenses, threads>>
      ]_vars

\* a step of a background thread: no message arrives or is answered, a thread ends
ThreadStep == request' = request /\ threads' # threads

\* C12: a run of the handler hands an expense to a background thread exactly when
\* it answers with the confirmation, and then the sender's session is absent and
\* the thread has not run yet: the reply does not wait for the append. The run of
\* the thread, whatever the outcome of its POST, ends that one thread, starts no
\* other, and leaves the reply and the session map as they were.
C12_AcknowledgeThenWrite ==
    [][/\ Handled =>
            /\ (resp' = Adding) <=> (threads' # threads)
            /\ (resp' = Adding) =>
                   /\ \E e \in BagToSet(threads') :
                          OneMoreThread(e) /\ BagIn(e, threads')
                   /\ pending_expenses'[request.From] = NoSession
                   /\ OthersKeep(request.From)
       /\ ThreadStep =>
            /\ \E e \in BagToSet(threads) : threads' = threads (-) SetToBag({e})
            /\ UNCHANGED <<pending_expenses, custom_table, resp>>
      ]_vars

\* the thread has run and the confirmation is still the reply that was given
C12_Witness ==
    /\ resp = Adding
    /\ threads = EmptyBag
    /\ request = NoRequest

\* C13: when a read of the store fails (the rows behind a stats command, the rows
\* behind "last", the custom categories behind a category menu or behind the
\* resolution of a category reply) the reply is the could-not-retrieve-data reply.
C13_ReadFailureIsReported ==
    [][LET s == request.From
           b == request.Body
           p == pending_expenses[s]
       IN  Handled =>
             /\ \A rows \in SheetRows :
                    StatsCommand(s, b, FALSE, rows) => resp'.kind = "no_data"
             /\ \A rows \in SheetRows :
                    LastCommand(s, b, FALSE, rows) => resp'.kind = "no_data"
             /\ \A answer \in Dates :
                    (/\ AwaitingDate(s, b, answer, FALSE)
                     /\ Get(p, "category", "") = "uncertain") => resp'.kind = "no_data"
             /\ \A again \in BOOLEAN :
                    AwaitingCategory(s, b, FALSE, again) => resp'.kind = "no_data"
             /\ \A answer \in FullPayloads :
                    (/\ ~InPending(s)
                     /\ NewExpense(s, b, answer, FALSE)
                     /\ first_match(answer) = "choose_category") => resp'.kind = "no_data"
      ]_vars

\* the days from a date of the sheet back to today, by the calendar
DaysBeforeToday ==
    "06-11-2026" :> 0 @@ "07-11-2026" :> (-1) @@ "30-10-2026" :> 7 @@
    "29-10-2026" :> 8 @@ "06-11-2025" :> 365

\* the rows of data whose date parses and lies d days back, d in the set given
RowsBack(days) ==
    {i \in 1..Len(data) :
        /\ data[i].date \in DOMAIN DaysBeforeToday
        /\ DaysBeforeToday[data[i].date] \in days}

\* C16: the rows counted for "week" are those whose date parses and lies from 0
\* to 7 days back; a row dated after today or with a date that does not parse is
\* counted for no period.
C16_WeekIsTrailingSevenDays ==
    resp.kind = "stats" =>
        /\ resp.period = "week" => resp.total_transactions = Cardinality(RowsBack(0..7))
        /\ resp.total_transactions <= Cardinality(RowsBack(0..365))

\* the rows of data the period of the reply keeps, all of them or those of c
Kept == {i \in 1..Len(data) : in_period(data[i], resp.period)}
KeptOf(c) == {i \in Kept : data[i].category = c}

RECURSIVE AmountOver(_)
AmountOver(rows) ==
    IF rows = {} THEN 0
    ELSE LET i == CHOOSE x \in rows : TRUE
         IN  float(data[i].amount) + AmountOver(rows \ {i})

RECURSIVE CountOver(_)
CountOver(cats) ==
    IF cats = {} THEN 0
    ELSE LET c == CHOOSE x \in cats : TRUE
         IN  resp.lines[c].count + CountOver(cats \ {c})

\* C17 as stated: a category whose total is zero has no line, and the number of
\* transactions on the Total line is the sum of the numbers on the lines.
C17_TotalCountsShownRows ==
    resp.kind = "stats" =>
        /\ \A c \in DOMAIN resp.lines : resp.lines[c].total # 0
        /\ resp.total_transactions = CountOver(DOMAIN resp.lines)

\* C17, amended: the lines are those of the categories whose total over the rows
\* of the period is above zero, each with that total and the number of its rows;
\* the Total line has the sum of the lines and the number of all the rows of the
\* period, those of the categories without a line included.
C17_TotalCountsAllRows ==
    resp.kind = "stats" =>
        /\ DOMAIN resp.lines =
               {c \in {data[i].category : i \in Kept} : AmountOver(KeptOf(c)) > 0}
        /\ \A c \in DOMAIN resp.lines :
               resp.lines[c] = [total |-> AmountOver(KeptOf(c)),
                                count |-> Cardinality(KeptOf(c))]
        /\ resp.grand_total = AmountOver(UNION {KeptOf(c) : c \in DOMAIN resp.lines})
        /\ resp.total_transactions = Cardinality(Kept)
        /\ resp.total_transactions >= CountOver(DOMAIN resp.lines)

\* a reply with a line for one category while a row of amount 0 of another
\* category is in the period: the Total line counts more than the lines do
C17_Witness ==
    /\ resp.kind = "stats"
    /\ DOMAIN resp.lines # {}
    /\ resp.total_transactions > CountOver(DOMAIN resp.lines)

\* C14: with the custom categories the store lists, whatever their names, the
\* reply "N", N from 1 to 4 + their number, in a session waiting for the category
\* resolves to the N-th entry of Cable, Labour, Material Purchase, Fuel followed
\* by the custom categories in the store's order.
C14_NumberPicksNthEntry ==
    [][LET s == request.From
           p == pending_expenses[s]
           offered == cat_list(Keys(custom_table))
       IN  \A N \in 1..Len(offered), again \in BOOLEAN :
               (/\ Handled
                /\ request.Body = Str(N)
                /\ AwaitingCategory(s, request.Body, TRUE, again)) =>
                   OneMoreThread(Expense(p.date, p.amount, p.description, offered[N]))
      ]_vars

\* C15: with the custom categories the store lists, names that differ only in
\* case among them, the reply C, C a fixed name or a listed custom name, in a
\* session waiting for the category resolves to C itself.
C15_NameResolvesToItself ==
    [][LET s == request.From
           p == pending_expenses[s]
           offered == cat_list(Keys(custom_table))
       IN  \A i \in 1..Len(offered), again \in BOOLEAN :
               (/\ Handled
                /\ request.Body = offered[i]
                /\ AwaitingCategory(s, request.Body, TRUE, again)) =>
                   OneMoreThread(Expense(p.date, p.amount, p.description, offered[i]))
      ]_vars

\* C20: a step in which a sender's session goes from open to absent is a run of
\* the handler on a message of that sender, and either the message is cancel or
\* reset, acknowledged, with nothing handed to the ledger, or the reply resolved
\* what the session waited for and the step answers with the confirmation and
\* hands over one expense. So no step that fails to resolve a date, a category or
\* a name, that fails to read the store, or that runs a thread removes a session.
C20_SessionRemovedWithReply ==
    [][\A s \in Senders :
         (InPending(s) /\ pending_expenses'[s] = NoSession) =>
            LET b == request.Body
                p == pending_expenses[s]
            IN  /\ Handled
                /\ request.From = s
                /\ resp' # EmptyResponse
                /\ \/ /\ IsCancel(b)
                      /\ resp'.kind = "cancelled"
                      /\ threads' = threads
                   \/ /\ PastCommands(b)
                      /\ resp' = Adding
                      /\ \E e \in BagToSet(threads') : OneMoreThread(e)
                      /\ CASE p.waiting_for = "date" ->
                                  \E answer \in Dates, ok \in BOOLEAN :
                                      AwaitingDate(s, b, answer, ok)
                            [] p.waiting_for = "category" ->
                                  \E ok \in BOOLEAN :
                                      final_category(Strip(b), get_custom_categories(ok)) # ""
                            [] p.waiting_for = "custom_category" ->
                                  Len(Strip(b)) >= 2
                            [] OTHER -> FALSE
      ]_vars

\* the session was removed by the completion with a custom name although the
\* registration of the name had failed
C20_Witness ==
    /\ resp = Adding
    /\ pending_expenses["A"] = NoSession
    /\ custom_table = <<>>
    /\ \E e \in BagToSet(threads) : e.category = "Transport"

\* worker w takes a step
Steps(w) == running'[w] # running[w]

\* worker w hands an expense to a thread in this step
Sends(w) == HasKey(running'[w], "sent") /\ ~HasKey(running[w], "sent")

\* C18: two runs of the handler on messages of one sender, interleaved at their
\* outside calls, end as they would one after the other: no run fails on the del
\* of a session another run has removed; the two runs do not both hand over an
\* expense from a session they read (one after the other, the second finds the
\* session gone); and a run that found no session does not write its new session
\* over one opened since.
C18_SameSenderRunsAreSerial ==
    [][/\ \A w \in Workers : running'[w].pc # "KeyError"
       /\ \A v, w \in Workers :
              (/\ v # w
               /\ running'[v].pc # "idle" /\ running'[w].pc # "idle"
               /\ running'[v].From = running'[w].From) =>
                  ~(/\ HasKey(running'[v], "pending") /\ HasKey(running'[v], "sent")
                    /\ HasKey(running'[w], "pending") /\ HasKey(running'[w], "sent"))
       /\ \A w \in Workers :
              (/\ running[w].pc = "parse_expense"
               /\ Steps(w)
               /\ pending_expenses'[running[w].From] # pending_expenses[running[w].From]) =>
                  ~InPending(running[w].From)
      ]_vars

\* C19: a step of a run on a message of sender s, whatever the other run is doing
\* and for whom, leaves the session of every other sender as it was, and the
\* expense it hands over is the one of s; a step of no run (a thread) leaves the
\* whole session map as it was. So a sender's session is made, changed or removed
\* only by runs on that sender's messages.
C19_OtherSendersUntouched ==
    [][/\ \A w \in Workers :
              Steps(w) =>
                  LET s == running'[w].From
                  IN  /\ OthersKeep(s)
                      /\ Sends(w) =>
                             /\ OneMoreThread(running'[w].sent)
                             /\ running'[w].sent.description = DescriptionOf(s)
                             /\ running'[w].sent.amount \in Amounts
       /\ (\A w \in Workers : ~Steps(w)) => pending_expenses' = pending_expenses
      ]_vars

\* A's run has handed over A's expense while B's run waits for the date answer,
\* B's session still open
C19_Witness ==
    /\ running["w1"].pc = "done"
    /\ running["w1"].From = "A"
    /\ HasKey(running["w1"], "sent")
    /\ running["w2"].pc = "parse_date"
    /\ running["w2"].From = "B"
    /\ InPending("B")

\* the replies that only the new-expense path gives, app.py:448, 459, 487
ExtractionReplies == {"not_understood", "ask_date", "ask_custom_category", "error"}

\* C21: with the messages handled one at a time, a run of the handler on a
\* message of a sender whose session is open is no run of the new-expense path:
\* no answer of the text understanding makes it one, and its reply is none of the
\* replies of that path. So an open session is never written over: across every
\* step that finds the session open and leaves it open, its amount and its
\* description are the same, and waiting_for is the same or goes from date to
\* category.
C21_OpenSessionNeverSuperseded ==
    [][\A s \in Senders :
         /\ (Handled /\ request.From = s /\ InPending(s)) =>
                /\ ~\E answer \in SessionAnswers, ok \in BOOLEAN :
                       NewExpense(s, request.Body, answer, ok)
                /\ resp'.kind \notin ExtractionReplies
         /\ (InPending(s) /\ pending_expenses'[s] # NoSession) =>
                LET p == pending_expenses[s]
                    q == pending_expenses'[s]
                IN  /\ q.amount = p.amount
                    /\ q.description = p.description
                    /\ \/ q.waiting_for = p.waiting_for
                       \/ p.waiting_for = "date" /\ q.waiting_for = "category"
      ]_vars

\* a session opened for the dearer cement without a date, moved on to the
\* category by a date reply, and kept by a reply that names no category
C21_Witness ==
    /\ request = NoRequest
    /\ resp.kind = "invalid_category"
    /\ InPending("A")
    /\ pending_expenses["A"].waiting_for = "category"
    /\ HasKey(pending_expenses["A"], "category")
    /\ pending_expenses["A"].amount = "250"
    /\ pending_expenses["A"].description = "cement"

====
